---- MODULE Spec2Model ----
(***************************************************************************)
(* Widget identity, per-run registration and widget-state coalescing of    *)
(* streamlit/runtime/state/widgets.py.                                      *)
(*                                                                          *)
(* Four specifications share the variables of this module:                  *)
(*   Spec         register_widget called against run contexts               *)
(*   DeriveSpec   _get_widget_id applied to pairs of argument triples       *)
(*   CoalesceSpec coalesce_widget_states applied to pairs of snapshots      *)
(*   RerunSpec    coalesce_widget_states folded over a sequence of reports  *)
(*                                                                          *)
(* Python's Optional[T] is a sequence of length 0 (None) or 1 (a value).    *)
(* Byte strings and str are TLA+ strings, concatenated with \o.             *)
(***************************************************************************)
EXTENDS Integers, Sequences, FiniteSets, TLC

VARIABLES
    widget_ids_this_run,        \* ctx.widget_ids_this_run, per run context
    widget_user_keys_this_run,  \* ctx.widget_user_keys_this_run, per run context
    call,                       \* arguments of the last register_widget call
    proto_id,                   \* element_proto.id after the last call
    returned,                   \* RegisterWidgetResult the last call returned
    raised,                     \* exception the last call raised
    store_calls,                \* session_state.register_widget calls of the last call
    derive_args,                \* argument triples handed to _get_widget_id
    derive_ids,                 \* the identities _get_widget_id returned for them
    old_states,                 \* WidgetStates held before the client's report
    new_states,                 \* WidgetStates the client reported
    coalesced,                  \* result of coalesce_widget_states
    merged,                     \* TRUE once coalesced holds a result
    pending                     \* ids trigger(true) in the first snapshot and in
                                \* the trigger slot of every report since

registrar_vars == <<widget_ids_this_run, widget_user_keys_this_run, call,
                    proto_id, returned, raised, store_calls>>
derive_vars == <<derive_args, derive_ids>>
coalesce_vars == <<old_states, new_states, coalesced, merged, pending>>
vars == <<registrar_vars, derive_vars, coalesce_vars>>

None == <<>>
Some(x) == <<x>>

(***************************************************************************)
(* Static table and identity derivation                                     *)
(***************************************************************************)

ELEMENT_TYPE_TO_VALUE_TYPE ==
    [t \in {"button", "download_button"} |-> "trigger_value"]
    @@ [t \in {"checkbox"} |-> "bool_value"]
    @@ [t \in {"camera_input", "file_uploader"} |-> "file_uploader_state_value"]
    @@ [t \in {"color_picker", "text_area", "text_input", "time_input"} |-> "string_value"]
    @@ [t \in {"date_input"} |-> "string_array_value"]
    @@ [t \in {"multiselect"} |-> "int_array_value"]
    @@ [t \in {"number_input"} |-> "double_value"]
    @@ [t \in {"radio", "selectbox"} |-> "int_value"]
    @@ [t \in {"slider"} |-> "double_array_value"]
    @@ [t \in {"component_instance"} |-> "json_value"]

ElementTypes == DOMAIN ELEMENT_TYPE_TO_VALUE_TYPE

GENERATED_WIDGET_KEY_PREFIX == "$$GENERATED_WIDGET_KEY"

\* element_proto.SerializeToString(): the configured fields, then the id
\* field when it is set (an unset string field is not put on the wire).
SerializeToString(element_proto) ==
    element_proto.config
        \o (IF element_proto.id = "" THEN "" ELSE "|id=" \o element_proto.id)

\* h = hashlib.new("md5"); h.update(a); h.update(b); h.hexdigest():
\* the digest of the byte stream a ++ b.  The digest is taken as injective
\* on the stream it is fed and is written as the stream it stands for.
hexdigest(stream) == "md5(" \o stream \o ")"

\* str.format / f-string rendering of an Optional[str]: None renders "None".
FormatOptional(user_key) ==
    IF user_key = None THEN "None" ELSE user_key[1]

get_widget_id(element_type, element_proto, user_key) ==
    GENERATED_WIDGET_KEY_PREFIX
        \o "-" \o hexdigest(element_type \o SerializeToString(element_proto))
        \o "-" \o FormatOptional(user_key)

\* The message text is shortened to its distinguishing parts: the widget
\* name, and either the key or the "same generated key" phrasing.
build_duplicate_widget_message(widget_func_name, user_key) ==
    IF user_key # None
    THEN "There are multiple identical st." \o widget_func_name
             \o " widgets with key=" \o FormatOptional(user_key)
    ELSE "There are multiple identical st." \o widget_func_name
             \o " widgets with the same generated key"

(***************************************************************************)
(* Collaborators of register_widget                                         *)
(***************************************************************************)

\* RegisterWidgetResult.failure(deserializer): the deserializer's default.
RegisterWidgetResult_failure(deserializer) ==
    [value |-> "default_of_" \o deserializer, value_changed |-> FALSE]

\* ctx.session_state.register_widget(metadata, user_key) when it returns.
session_state_register_widget(metadata, user_key) ==
    [value |-> "session_value_of_" \o metadata.id, value_changed |-> FALSE]

\* WidgetMetadata built with the trigger slot whatever the element type.
WidgetMetadata_TriggerSlot(id, deserializer, serializer, value_type, callback, callback_args, callback_kwargs) ==
    [id |-> id, deserializer |-> deserializer, serializer |-> serializer,
     value_type |-> "trigger_value", callback |-> callback,
     callback_args |-> callback_args, callback_kwargs |-> callback_kwargs]

WidgetMetadata(id, deserializer, serializer, value_type, callback, callback_args, callback_kwargs) ==
    [id |-> id, deserializer |-> deserializer, serializer |-> serializer,
     value_type |-> value_type, callback |-> callback,
     callback_args |-> callback_args, callback_kwargs |-> callback_kwargs]

DuplicateWidgetID(message) == [type |-> "DuplicateWidgetID", message |-> message]
StoreError == [type |-> "StoreError", message |-> ""]

(***************************************************************************)
(* register_widget                                                          *)
(***************************************************************************)

\* The name a duplicate message gives the widget.
WidgetTypeName(element_type, widget_func_name) ==
    IF widget_func_name # None THEN widget_func_name[1] ELSE element_type

\* ClaimUserKey without the membership test of line 196.
ClaimUserKey_NoCheck(keys, user_key) ==
    [keys |-> IF user_key # None THEN keys \cup {user_key[1]} ELSE keys,
     dup |-> FALSE]

\* Lines 194-204: the user-key claim.  Yields the key set after the step
\* and whether the step raised.
ClaimUserKey(keys, user_key) ==
    IF user_key # None
    THEN IF user_key[1] \notin keys
         THEN [keys |-> keys \cup {user_key[1]}, dup |-> FALSE]
         ELSE [keys |-> keys, dup |-> TRUE]
    ELSE [keys |-> keys, dup |-> FALSE]

\* ClaimWidgetId assigning the claim set instead of adding to it.
ClaimWidgetId_Reset(ids, widget_id) ==
    [ids |-> {widget_id}, dup |-> widget_id \in ids]

\* ClaimWidgetId without the membership test of line 207.
ClaimWidgetId_NoCheck(ids, widget_id) ==
    [ids |-> ids \cup {widget_id}, dup |-> FALSE]

\* Lines 206-216: the identity claim.
ClaimWidgetId(ids, widget_id) ==
    IF widget_id \notin ids
    THEN [ids |-> ids \cup {widget_id}, dup |-> FALSE]
    ELSE [ids |-> ids, dup |-> TRUE]

\* Line 187 moved below the early-out of lines 189-192.
AssignedId_AfterEarlyOut(ctx, element_proto, widget_id) ==
    IF ctx = None THEN element_proto.id ELSE widget_id

\* Line 187: element_proto.id after the assignment, made on every path.
AssignedId(ctx, element_proto, widget_id) == widget_id

\* Line 189 with the early-out never taken.
NoContext_Never(ctx) == FALSE

\* Line 189: ctx is None.
NoContext(ctx) == ctx = None

\* The whole of register_widget on the claim sets (ids, keys) of context
\* a.ctx (None: no context).  a.store_fails is the session store's choice to
\* raise.  Yields the claim sets, the descriptor's id, the result or the
\* exception, and the calls made to the session store.
register_widget(a, ids, keys) ==
    LET widget_id == get_widget_id(a.element_type, a.element_proto, a.user_key)
        name == WidgetTypeName(a.element_type, a.widget_func_name)
        dupl == DuplicateWidgetID(build_duplicate_widget_message(name, a.user_key))
        k == ClaimUserKey(keys, a.user_key)
        i == ClaimWidgetId(ids, widget_id)
        metadata == WidgetMetadata(widget_id, a.deserializer, a.serializer,
                                   ELEMENT_TYPE_TO_VALUE_TYPE[a.element_type],
                                   a.on_change_handler, a.args, a.kwargs)
        base == [ids |-> ids, keys |-> keys,
                 proto_id |-> AssignedId(a.ctx, a.element_proto, widget_id),
                 returned |-> None, raised |-> None, store_calls |-> <<>>]
    IN  IF NoContext(a.ctx)
        THEN [base EXCEPT !.returned =
                  Some(RegisterWidgetResult_failure(a.deserializer))]
        ELSE IF k.dup
        THEN [base EXCEPT !.raised = Some(dupl)]
        ELSE IF i.dup
        THEN [base EXCEPT !.keys = k.keys, !.raised = Some(dupl)]
        ELSE IF a.store_fails
        THEN [base EXCEPT !.keys = k.keys, !.ids = i.ids,
                          !.store_calls = << <<metadata, a.user_key>> >>,
                          !.raised = Some(StoreError)]
        ELSE [base EXCEPT !.keys = k.keys, !.ids = i.ids,
                          !.store_calls = << <<metadata, a.user_key>> >>,
                          !.returned = Some(session_state_register_widget(
                                                metadata, a.user_key))]

(***************************************************************************)
(* Inputs of the registrar                                                  *)
(***************************************************************************)

Runs == {1, 2}
Contexts == {None} \cup {Some(r) : r \in Runs}

\* Widget declarations: element type, the freshly filled proto (id unset) and
\* the DeltaGenerator function name, which only custom components pass.
Declarations ==
    { [element_type |-> "button", config |-> "label=a",
       widget_func_name |-> None],
      [element_type |-> "component_instance", config |-> "label=a",
       widget_func_name |-> Some("my_component")] }

UserKeys == {None, Some("k"), Some("None")}

CallArgs ==
    { [element_type |-> d.element_type,
       element_proto |-> [config |-> d.config, id |-> ""],
       deserializer |-> "deserialize_" \o d.element_type,
       serializer |-> "serialize_" \o d.element_type,
       ctx |-> c, user_key |-> uk, widget_func_name |-> d.widget_func_name,
       on_change_handler |-> None, args |-> None, kwargs |-> None,
       store_fails |-> sf] :
      d \in Declarations, c \in Contexts, uk \in UserKeys, sf \in BOOLEAN }

\* One identity claim set shared by every run context.
IdsOf_Shared(ctx) ==
    IF ctx = None THEN {} ELSE UNION {widget_ids_this_run[r] : r \in Runs}

\* One user-key claim set shared by every run context.
KeysOf_Shared(ctx) ==
    IF ctx = None THEN {} ELSE UNION {widget_user_keys_this_run[r] : r \in Runs}

\* ctx.widget_ids_this_run and ctx.widget_user_keys_this_run of a context.
IdsOf(ctx) == IF ctx = None THEN {} ELSE widget_ids_this_run[ctx[1]]
KeysOf(ctx) == IF ctx = None THEN {} ELSE widget_user_keys_this_run[ctx[1]]

Register(a) ==
    LET r == register_widget(a, IdsOf(a.ctx), KeysOf(a.ctx))
    IN  /\ (a.store_fails => r.store_calls # <<>>)
        /\ call' = Some(a)
        /\ proto_id' = r.proto_id
        /\ returned' = r.returned
        /\ raised' = r.raised
        /\ store_calls' = r.store_calls
        /\ widget_ids_this_run' =
               IF a.ctx = None THEN widget_ids_this_run
               ELSE [widget_ids_this_run EXCEPT ![a.ctx[1]] = r.ids]
        /\ widget_user_keys_this_run' =
               IF a.ctx = None THEN widget_user_keys_this_run
               ELSE [widget_user_keys_this_run EXCEPT ![a.ctx[1]] = r.keys]
        /\ UNCHANGED <<derive_vars, coalesce_vars>>

RegistrarInit ==
    /\ widget_ids_this_run = [r \in Runs |-> {}]
    /\ widget_user_keys_this_run = [r \in Runs |-> {}]
    /\ call = None
    /\ proto_id = ""
    /\ returned = None
    /\ raised = None
    /\ store_calls = <<>>

DeriveIdle == derive_args = <<>> /\ derive_ids = <<>>
CoalesceIdle ==
    /\ old_states = <<>>
    /\ new_states = <<>>
    /\ coalesced = <<>>
    /\ merged = FALSE
    /\ pending = {}

Init == RegistrarInit /\ DeriveIdle /\ CoalesceIdle

Next == \E a \in CallArgs : Register(a)

Spec == Init /\ [][Next]_vars

(***************************************************************************)
(* Properties of register_widget (checked under Spec)                       *)
(***************************************************************************)

IsDuplicate(exc) == exc # None /\ exc[1].type = "DuplicateWidgetID"

\* The triple (elementType, serializedConfig, userKey) of a call.
TripleOf(a) == <<a.element_type, a.element_proto, a.user_key>>

\* C1: a register call on a run context that carries a user key the run has
\* already claimed, or the same user key as the call made just before it on
\* the same context, raises DuplicateWidgetID, whatever the two element
\* types and configurations are.
C1_DuplicateUserKeyRaises ==
    [][LET a == call'[1]
       IN  (/\ a.ctx # None
            /\ a.user_key # None
            /\ \/ a.user_key[1] \in widget_user_keys_this_run[a.ctx[1]]
               \/ /\ call # None
                  /\ call[1].ctx = a.ctx
                  /\ call[1].user_key = a.user_key)
           => IsDuplicate(raised')]_vars

\* A call with key "k" for a component raised DuplicateWidgetID in run 1,
\* where the key had been claimed by a button.
C1_Witness ==
    /\ call # None
    /\ call[1].ctx = Some(1)
    /\ call[1].user_key = Some("k")
    /\ call[1].element_type = "component_instance"
    /\ IsDuplicate(raised)
    /\ get_widget_id("button", [config |-> "label=a", id |-> ""], Some("k"))
           \in widget_ids_this_run[1]
    /\ proto_id \notin widget_ids_this_run[1]

\* C2: a register call with no user key on a run context raises
\* DuplicateWidgetID when the identity derived for it is already in the
\* run's identity claim set; when it is not, the call claims the identity,
\* raises no DuplicateWidgetID and returns a result unless the store fails.
C2_DuplicateGeneratedIdRaises ==
    [][LET a == call'[1]
           r == a.ctx[1]
           id == get_widget_id(a.element_type, a.element_proto, a.user_key)
       IN  (a.ctx # None /\ a.user_key = None)
           => /\ id \in widget_ids_this_run[r] => IsDuplicate(raised')
              /\ id \notin widget_ids_this_run[r]
                    => /\ ~IsDuplicate(raised')
                       /\ id \in widget_ids_this_run'[r]
                       /\ (~a.store_fails => returned' # None)
              /\ (/\ call # None
                  /\ call[1].ctx = a.ctx
                  /\ TripleOf(call[1]) = TripleOf(a))
                    => IsDuplicate(raised')]_vars

\* The same keyless button was registered twice in a row in run 1 and the
\* second call raised the "same generated key" DuplicateWidgetID.
C2_Witness ==
    /\ call # None
    /\ call[1].ctx = Some(1)
    /\ call[1].user_key = None
    /\ call[1].element_type = "button"
    /\ IsDuplicate(raised)
    /\ widget_ids_this_run[1] = {proto_id}
    /\ widget_user_keys_this_run[1] = {}

\* C3: whether a register call raises DuplicateWidgetID depends on its own
\* run's claim sets alone: a call whose user key and derived identity are
\* not claimed in its run raises no DuplicateWidgetID whatever the other
\* run holds, and when the call before it registered the same triple in
\* another run, both calls derived the same identity.
C3_DifferentRunsDoNotCollide ==
    [][LET a == call'[1]
           r == a.ctx[1]
           id == get_widget_id(a.element_type, a.element_proto, a.user_key)
       IN  a.ctx # None
           => /\ (/\ (a.user_key = None
                        \/ a.user_key[1] \notin widget_user_keys_this_run[r])
                  /\ id \notin widget_ids_this_run[r])
                    => ~IsDuplicate(raised')
              /\ (/\ call # None
                  /\ call[1].ctx # None
                  /\ call[1].ctx # a.ctx
                  /\ TripleOf(call[1]) = TripleOf(a)
                  /\ widget_ids_this_run[r] = {}
                  /\ widget_user_keys_this_run[r] = {})
                    => /\ proto_id' = proto_id
                       /\ ~IsDuplicate(raised')]_vars

\* Run 2's first registration is of a keyed triple run 1 holds among other
\* claims; it returned a result and both runs hold the same identity.
C3_Witness ==
    /\ call # None
    /\ call[1].ctx = Some(2)
    /\ call[1].user_key = Some("k")
    /\ returned # None
    /\ widget_ids_this_run[2] = {proto_id}
    /\ proto_id \in widget_ids_this_run[1]
    /\ Cardinality(widget_ids_this_run[1]) >= 2

\* C4 (as claimed): two register calls, the only ones of their run, with the
\* same element type and configuration and different user keys, the first
\* of which returned a result, obtain different identities, and the second
\* raises no DuplicateWidgetID.
C4_UserKeyMakesDistinct ==
    [][LET a == call'[1]
       IN  (/\ call # None
            /\ returned # None
            /\ a.ctx # None
            /\ call[1].ctx = a.ctx
            /\ call[1].element_type = a.element_type
            /\ call[1].element_proto = a.element_proto
            /\ call[1].user_key # a.user_key
            /\ widget_ids_this_run[a.ctx[1]] = {proto_id}
            /\ widget_user_keys_this_run[a.ctx[1]]
                   = {call[1].user_key[j] : j \in 1..Len(call[1].user_key)})
           => /\ proto_id' # proto_id
              /\ ~IsDuplicate(raised')]_vars

\* C6: a register call with no run context raises nothing, returns the
\* failure result carrying its deserializer's default, makes no call to the
\* session store and leaves every run's claim sets as they were.
C6_NoContextFallback ==
    [][LET a == call'[1]
       IN  a.ctx = None
           => /\ raised' = None
              /\ returned' = Some([value |-> "default_of_" \o a.deserializer,
                                   value_changed |-> FALSE])
              /\ store_calls' = <<>>
              /\ widget_ids_this_run' = widget_ids_this_run
              /\ widget_user_keys_this_run' = widget_user_keys_this_run]_vars

\* A call without context returned the default while run 1 held claims.
C6_Witness ==
    /\ call # None
    /\ call[1].ctx = None
    /\ call[1].user_key = Some("k")
    /\ returned # None
    /\ "k" \in widget_user_keys_this_run[1]
    /\ widget_ids_this_run[1] # {}

\* C7 (as claimed): a register call that raises DuplicateWidgetID leaves the
\* identity claim set and the user-key claim set of every run unchanged.
C7_DuplicateLeavesClaimSets ==
    [][IsDuplicate(raised')
           => /\ widget_ids_this_run' = widget_ids_this_run
              /\ widget_user_keys_this_run' = widget_user_keys_this_run]_vars

IsStoreError(exc) == exc # None /\ exc[1].type = "StoreError"

\* C14 (as claimed): a register call with no run context leaves the
\* descriptor's id field as it was before the call.
C14_NoContextLeavesDescriptor ==
    [][LET a == call'[1]
       IN  a.ctx = None => proto_id' = a.element_proto.id]_vars

\* C14 (amended): every register call, with or without a run context,
\* assigns the derived identity onto the descriptor; with no run context
\* that is the only thing it changes: no claim set, no session store call.
C14_DescriptorAlwaysAssigned ==
    [][LET a == call'[1]
       IN  /\ proto_id' = GENERATED_WIDGET_KEY_PREFIX
                  \o "-md5(" \o a.element_type \o a.element_proto.config \o ")-"
                  \o (IF a.user_key = None THEN "None" ELSE a.user_key[1])
           /\ proto_id' # a.element_proto.id
           /\ a.ctx = None
                 => /\ store_calls' = <<>>
                    /\ widget_ids_this_run' = widget_ids_this_run
                    /\ widget_user_keys_this_run' = widget_user_keys_this_run]_vars

\* A component registered with no run context and no claims in any run: the
\* call returned the fallback and the descriptor holds the derived identity.
C14_Witness ==
    /\ call # None
    /\ call[1].ctx = None
    /\ call[1].element_type = "component_instance"
    /\ call[1].user_key = None
    /\ call[1].element_proto.id = ""
    /\ returned # None
    /\ proto_id = get_widget_id("component_instance",
                                [config |-> "label=a", id |-> ""], None)
    /\ \A r \in Runs : widget_ids_this_run[r] = {}

\* C15 (as claimed): when the session store's register_widget fails, the
\* failure reaches the caller and the run's claim sets are as before the call.
C15_StoreFailureLeavesClaimSets ==
    [][LET a == call'[1]
       IN  (a.ctx # None /\ store_calls' # <<>> /\ a.store_fails)
           => /\ IsStoreError(raised')
              /\ widget_ids_this_run' = widget_ids_this_run
              /\ widget_user_keys_this_run' = widget_user_keys_this_run]_vars

\* C16: a register call on a run context whose key and identity are not yet
\* claimed calls the session store exactly once, with metadata carrying the
\* derived identity and the value type of the element type and with the
\* user key, and returns the store's result as it is; a call that raises
\* DuplicateWidgetID makes no call to the session store.
C16_StoreCalledOnceOnSuccess ==
    [][LET a == call'[1]
           r == a.ctx[1]
           id == get_widget_id(a.element_type, a.element_proto, a.user_key)
           fresh == /\ (a.user_key = None
                          \/ a.user_key[1] \notin widget_user_keys_this_run[r])
                    /\ id \notin widget_ids_this_run[r]
       IN  a.ctx # None
           => /\ IsDuplicate(raised') <=> ~fresh
              /\ IsDuplicate(raised') => store_calls' = <<>>
              /\ fresh
                   => /\ Len(store_calls') = 1
                      /\ store_calls'[1][1].id = id
                      /\ store_calls'[1][1].id = proto_id'
                      /\ store_calls'[1][1].value_type
                             = ELEMENT_TYPE_TO_VALUE_TYPE[a.element_type]
                      /\ store_calls'[1][1].deserializer = a.deserializer
                      /\ store_calls'[1][1].serializer = a.serializer
                      /\ store_calls'[1][2] = a.user_key
                      /\ ~a.store_fails
                           => returned' = Some(session_state_register_widget(
                                                   store_calls'[1][1], a.user_key))]_vars

\* A keyed component registered in run 1 after another claim: one store
\* call with the json_value slot, and the store's result returned.
C16_Witness ==
    /\ call # None
    /\ call[1].ctx = Some(1)
    /\ call[1].element_type = "component_instance"
    /\ call[1].user_key = Some("k")
    /\ Len(store_calls) = 1
    /\ store_calls[1][1].value_type = "json_value"
    /\ store_calls[1][1].id = proto_id
    /\ returned = Some(session_state_register_widget(store_calls[1][1], Some("k")))
    /\ Cardinality(widget_ids_this_run[1]) = 2

\* C17: a register call against one run context leaves the claim sets of
\* every other context as they were, and the first registration made on a
\* context succeeds, unless the store fails, whatever the other context has
\* claimed.
C17_ContextsIsolated ==
    [][LET a == call'[1]
           r == a.ctx[1]
       IN  a.ctx # None
           => /\ \A o \in Runs \ {r} :
                     /\ widget_ids_this_run'[o] = widget_ids_this_run[o]
                     /\ widget_user_keys_this_run'[o] = widget_user_keys_this_run[o]
              /\ (/\ widget_ids_this_run[r] = {}
                  /\ widget_user_keys_this_run[r] = {}
                  /\ ~a.store_fails)
                    => /\ raised' = None
                       /\ returned' # None
                       /\ proto_id' \in widget_ids_this_run'[r]]_vars

\* Calls interleaved on two contexts: the last, on context 1, registered a
\* keyed button that context 2 holds too, and returned a result.
C17_Witness ==
    /\ call # None
    /\ call[1].ctx = Some(1)
    /\ call[1].element_type = "button"
    /\ call[1].user_key = Some("k")
    /\ returned # None
    /\ proto_id \in widget_ids_this_run[2]
    /\ Cardinality(widget_ids_this_run[2]) >= 2
    /\ Cardinality(widget_ids_this_run[1]) >= 2
    /\ "k" \in widget_user_keys_this_run[2]

\* C18: no register call, returning or raising, removes an identity or a
\* user key from a claim set.
C18_ClaimSetsAppendOnly ==
    [][\A r \in Runs :
           /\ widget_ids_this_run[r] \subseteq widget_ids_this_run'[r]
           /\ widget_user_keys_this_run[r] \subseteq widget_user_keys_this_run'[r]]_vars

\* A call raised DuplicateWidgetID in run 1, which holds three identities
\* and both keys.
C18_Witness ==
    /\ call # None
    /\ call[1].ctx = Some(1)
    /\ IsDuplicate(raised)
    /\ Cardinality(widget_ids_this_run[1]) = 3
    /\ widget_user_keys_this_run[1] = {"k", "None"}

\* C19 (as claimed): a DuplicateWidgetID message names the widget by its
\* function name when given and by its element type otherwise; it has the
\* explicit-key phrasing, naming the key, exactly when the call carried a
\* user key the run had already claimed, and the generated-key phrasing
\* otherwise.  Stated for the calls that follow a call that raised nothing.
C19_MessageTellsTheCollision ==
    [][(raised = None /\ IsDuplicate(raised'))
           => LET a == call'[1]
                  name == IF a.widget_func_name # None
                          THEN a.widget_func_name[1] ELSE a.element_type
                  key_claimed ==
                      /\ a.user_key # None
                      /\ a.user_key[1] \in widget_user_keys_this_run[a.ctx[1]]
              IN  raised'[1].message =
                      IF key_claimed
                      THEN "There are multiple identical st." \o name
                               \o " widgets with key=" \o a.user_key[1]
                      ELSE "There are multiple identical st." \o name
                               \o " widgets with the same generated key"]_vars

(***************************************************************************)
(* _get_widget_id on pairs of argument triples                              *)
(***************************************************************************)

DeriveConfigs == {"label=a", "label=b"}

DeriveTriples ==
    { [element_type |-> t, element_proto |-> [config |-> c, id |-> ""],
       user_key |-> uk] :
      t \in ElementTypes, c \in DeriveConfigs, uk \in UserKeys }

Derive ==
    /\ derive_ids = <<>>
    /\ derive_ids' = << get_widget_id(derive_args[1].element_type,
                                      derive_args[1].element_proto,
                                      derive_args[1].user_key),
                        get_widget_id(derive_args[2].element_type,
                                      derive_args[2].element_proto,
                                      derive_args[2].user_key) >>
    /\ UNCHANGED <<derive_args, registrar_vars, coalesce_vars>>

DeriveInit ==
    /\ derive_args \in DeriveTriples \X DeriveTriples
    /\ derive_ids = <<>>
    /\ RegistrarInit
    /\ CoalesceIdle

DeriveNext == Derive

DeriveSpec == DeriveInit /\ [][DeriveNext]_vars

\* C5 (as claimed): _get_widget_id is injective on its arguments: two
\* triples (elementType, serializedConfig, userKey) obtain the same identity
\* exactly when they are equal, an absent key differing from every key.
C5_DeriveInjective ==
    derive_ids # <<>>
        => ((derive_ids[1] = derive_ids[2]) <=> (derive_args[1] = derive_args[2]))

(***************************************************************************)
(* coalesce_widget_states                                                   *)
(***************************************************************************)

MaxWidgets == 2

\* WidgetState: an id and the oneof "value".  which is the name of the set
\* field (WhichOneof); a field that is not the set one reads as its default.
TriggerState(id, b) ==
    [id |-> id, which |-> "trigger_value", trigger_value |-> b,
     string_value |-> ""]
StringState(id, v) ==
    [id |-> id, which |-> "string_value", trigger_value |-> FALSE,
     string_value |-> v]

WidgetIds == {"w1", "w2"}

WidgetStateValues ==
    {TriggerState(i, b) : i \in WidgetIds, b \in BOOLEAN}
        \cup {StringState(i, v) : i \in WidgetIds, v \in {"x", "y"}}

\* WidgetStates.widgets: a repeated field, any order, ids possibly repeated.
WidgetStatesValues ==
    UNION { [1..n -> WidgetStateValues] : n \in 0..MaxWidgets }

\* A Python dict kept as the sequence of its values in insertion order.
\* d[id] = wstate: an existing key keeps its position.
DictSet(d, wstate) ==
    IF \E j \in 1..Len(d) : d[j].id = wstate.id
    THEN [j \in 1..Len(d) |-> IF d[j].id = wstate.id THEN wstate ELSE d[j]]
    ELSE Append(d, wstate)

\* d.get(id): None when the key is absent.
DictGet(d, id) ==
    IF \E j \in 1..Len(d) : d[j].id = id
    THEN Some(d[CHOOSE j \in 1..Len(d) : d[j].id = id])
    ELSE None

\* {wstate.id: wstate for wstate in widgets}
RECURSIVE DictOf(_)
DictOf(widgets) ==
    IF widgets = <<>> THEN <<>>
    ELSE DictSet(DictOf(SubSeq(widgets, 1, Len(widgets) - 1)),
                 widgets[Len(widgets)])

\* The loop body without the reassertion of line 258.
Reassert_Never(states_by_id, old_state) == states_by_id

\* The loop body without the slot test of line 256.
Reassert_NoSlotTest(states_by_id, old_state) ==
    IF old_state.which = "trigger_value" /\ old_state.trigger_value
    THEN IF DictGet(states_by_id, old_state.id) # None
         THEN DictSet(states_by_id, old_state)
         ELSE states_by_id
    ELSE states_by_id

\* The loop body without the lookup of lines 253-257.
Reassert_NoLookup(states_by_id, old_state) ==
    IF old_state.which = "trigger_value" /\ old_state.trigger_value
    THEN DictSet(states_by_id, old_state)
    ELSE states_by_id

\* The loop body reasserting an old entry of any slot over a new entry of
\* the same slot.
Reassert_AllSlots(states_by_id, old_state) ==
    LET new_val == DictGet(states_by_id, old_state.id)
    IN  IF new_val # None /\ new_val[1].which = old_state.which
        THEN DictSet(states_by_id, old_state)
        ELSE states_by_id

\* The loop body without the test of old_state.trigger_value of line 248,
\* setting the coalesced trigger to True.
Reassert_SetTrue(states_by_id, old_state) ==
    IF old_state.which = "trigger_value"
    THEN LET new_val == DictGet(states_by_id, old_state.id)
         IN  IF new_val # None /\ new_val[1].which = "trigger_value"
             THEN DictSet(states_by_id,
                          [old_state EXCEPT !.trigger_value = TRUE])
             ELSE states_by_id
    ELSE states_by_id

\* The body of the loop over old_states.widgets, for one old_state.
Reassert(states_by_id, old_state) ==
    IF old_state.which = "trigger_value" /\ old_state.trigger_value
    THEN LET new_trigger_val == DictGet(states_by_id, old_state.id)
         IN  IF new_trigger_val # None
                /\ new_trigger_val[1].which = "trigger_value"
             THEN DictSet(states_by_id, old_state)
             ELSE states_by_id
    ELSE states_by_id

RECURSIVE ReassertAll(_, _)
ReassertAll(states_by_id, olds) ==
    IF olds = <<>> THEN states_by_id
    ELSE ReassertAll(Reassert(states_by_id, Head(olds)), Tail(olds))

coalesce_widget_states(old, new) == ReassertAll(DictOf(new), old)

Coalesce ==
    /\ ~merged
    /\ coalesced' = coalesce_widget_states(old_states, new_states)
    /\ merged' = TRUE
    /\ UNCHANGED <<old_states, new_states, pending, registrar_vars, derive_vars>>

CoalesceInit ==
    /\ old_states \in WidgetStatesValues
    /\ new_states \in WidgetStatesValues
    /\ coalesced = <<>>
    /\ merged = FALSE
    /\ pending = {}
    /\ RegistrarInit
    /\ DeriveIdle

CoalesceNext == Coalesce

CoalesceSpec == CoalesceInit /\ [][CoalesceNext]_vars

(***************************************************************************)
(* Properties of coalesce_widget_states (checked under CoalesceSpec)        *)
(***************************************************************************)

IdsIn(widgets) == {widgets[j].id : j \in 1..Len(widgets)}
EntriesAt(widgets, i) == {widgets[j] : j \in {n \in 1..Len(widgets) : widgets[n].id = i}}
UniqueIds(widgets) == Cardinality(IdsIn(widgets)) = Len(widgets)

\* The entry a snapshot holds at identity i: the last one reported for it.
EntryAt(widgets, i) ==
    LET last == CHOOSE j \in 1..Len(widgets) :
                    /\ widgets[j].id = i
                    /\ \A n \in (j + 1)..Len(widgets) : widgets[n].id # i
    IN  widgets[last]

\* C8: for snapshots with unique identities, when old holds trigger(true) at
\* i and new holds a trigger-slot entry at i, true or false, the coalesced
\* snapshot holds exactly old's entry, trigger(true), at i.
C8_TriggerPreserved ==
    (merged /\ UniqueIds(old_states) /\ UniqueIds(new_states))
        => \A i \in WidgetIds :
               (/\ TriggerState(i, TRUE) \in EntriesAt(old_states, i)
                /\ \E b \in BOOLEAN : TriggerState(i, b) \in EntriesAt(new_states, i))
                   => EntriesAt(coalesced, i) = {TriggerState(i, TRUE)}

\* old = {w1: trigger(true)}, new reports w1: trigger(false), and the
\* coalesced snapshot holds w1: trigger(true).
C8_Witness ==
    /\ merged
    /\ old_states = <<TriggerState("w1", TRUE)>>
    /\ TriggerState("w1", FALSE) \in EntriesAt(new_states, "w1")
    /\ UniqueIds(new_states)
    /\ Len(new_states) = 2
    /\ EntriesAt(coalesced, "w1") = {TriggerState("w1", TRUE)}

\* C9: for every identity i whose entry in new occupies a slot other than
\* the trigger slot, the coalesced snapshot holds exactly new's entry at i,
\* whatever old holds at i.
C9_NoTriggerOnOtherSlot ==
    merged
        => \A i \in IdsIn(new_states) :
               EntryAt(new_states, i).which # "trigger_value"
                   => EntriesAt(coalesced, i) = {EntryAt(new_states, i)}

\* old holds w1: trigger(true), new reports w1: string "x", and the
\* coalesced snapshot holds w1: string "x".
C9_Witness ==
    /\ merged
    /\ TriggerState("w1", TRUE) \in EntriesAt(old_states, "w1")
    /\ new_states = <<StringState("w1", "x")>>
    /\ coalesced = <<StringState("w1", "x")>>

\* C10: the identities of the coalesced snapshot are exactly the identities
\* of new: none of new is dropped, none that only old holds is added.
C10_IdsAreThoseOfNew ==
    merged => IdsIn(coalesced) = IdsIn(new_states)

\* old holds w1: trigger(true), new reports only w2, and the coalesced
\* snapshot holds w2 and not w1.
C10_Witness ==
    /\ merged
    /\ TriggerState("w1", TRUE) \in EntriesAt(old_states, "w1")
    /\ IdsIn(new_states) = {"w2"}
    /\ IdsIn(coalesced) = {"w2"}

HasTrigger(widgets) ==
    \E j \in 1..Len(widgets) : widgets[j].which = "trigger_value"

\* C11: for snapshots with unique identities in which no entry occupies the
\* trigger slot, the coalesced snapshot equals new as an identity-keyed
\* collection, whatever old holds.
C11_NonTriggersTakeNew ==
    (/\ merged
     /\ UniqueIds(old_states) /\ UniqueIds(new_states)
     /\ ~HasTrigger(old_states) /\ ~HasTrigger(new_states))
        => /\ UniqueIds(coalesced)
           /\ \A i \in WidgetIds : EntriesAt(coalesced, i) = EntriesAt(new_states, i)

\* old holds w1: string "y", new reports w1: string "x" and w2: string "y",
\* and the coalesced snapshot is new.
C11_Witness ==
    /\ merged
    /\ old_states = <<StringState("w1", "y")>>
    /\ new_states = <<StringState("w1", "x"), StringState("w2", "y")>>
    /\ coalesced = new_states

\* C12 (as claimed): when the coalesced snapshot holds trigger(true) at i,
\* old holds trigger(true) at i.
C12_TriggerTrueOnlyFromOld ==
    merged
        => \A i \in WidgetIds :
               TriggerState(i, TRUE) \in EntriesAt(coalesced, i)
                   => TriggerState(i, TRUE) \in EntriesAt(old_states, i)

\* C12 (amended): when the coalesced snapshot holds trigger(true) at i, old
\* or new holds trigger(true) at i, and new holds a trigger-slot entry at i.
C12_TriggerTrueFromOldOrNew ==
    merged
        => \A i \in WidgetIds :
               TriggerState(i, TRUE) \in EntriesAt(coalesced, i)
                   => /\ \/ TriggerState(i, TRUE) \in EntriesAt(old_states, i)
                         \/ TriggerState(i, TRUE) \in EntriesAt(new_states, i)
                      /\ \E b \in BOOLEAN :
                             TriggerState(i, b) \in EntriesAt(new_states, i)

\* old holds w1: trigger(false), new reports w1: trigger(true), and the
\* coalesced snapshot holds w1: trigger(true).
C12_Witness ==
    /\ merged
    /\ old_states = <<TriggerState("w1", FALSE)>>
    /\ new_states = <<TriggerState("w1", TRUE)>>
    /\ coalesced = <<TriggerState("w1", TRUE)>>

(***************************************************************************)
(* coalesce_widget_states folded over a sequence of client reports          *)
(***************************************************************************)

\* Client reports: at most one entry for each widget id.
RerunReports ==
    {<<>>}
        \cup {<<a>> : a \in WidgetStateValues}
        \cup {<<a, b>> : a \in {w \in WidgetStateValues : w.id = "w1"},
                         b \in {w \in WidgetStateValues : w.id = "w2"}}

\* A report r arrives before the pending snapshot was consumed by a run: the
\* pending snapshot becomes coalesce(pending snapshot, r).
Rerun(r) ==
    /\ old_states' = coalesced
    /\ new_states' = r
    /\ coalesced' = coalesce_widget_states(coalesced, r)
    /\ merged' = TRUE
    /\ pending' = {i \in pending :
                      /\ i \in IdsIn(r)
                      /\ EntryAt(r, i).which = "trigger_value"}
    /\ UNCHANGED <<registrar_vars, derive_vars>>

RerunInit ==
    /\ coalesced \in WidgetStatesValues
    /\ old_states = <<>>
    /\ new_states = <<>>
    /\ merged = TRUE
    /\ pending = {i \in WidgetIds : TriggerState(i, TRUE) \in EntriesAt(coalesced, i)}
    /\ RegistrarInit
    /\ DeriveIdle

RerunNext == \E r \in RerunReports : Rerun(r)

RerunSpec == RerunInit /\ [][RerunNext]_vars

\* C13: an identity that is trigger(true) in the first snapshot and that
\* every report since has carried in the trigger slot is trigger(true) in
\* the snapshot folded so far, and is its only entry once a report came.
C13_PendingTriggerSurvives ==
    \A i \in pending :
        /\ TriggerState(i, TRUE) \in EntriesAt(coalesced, i)
        /\ i \in IdsIn(new_states)
               => EntriesAt(coalesced, i) = {TriggerState(i, TRUE)}

\* w1 is still pending after a report that carried w1: trigger(false) onto a
\* snapshot that held w1: trigger(true) and w2 in another slot.
C13_Witness ==
    /\ "w1" \in pending
    /\ TriggerState("w1", FALSE) \in EntriesAt(new_states, "w1")
    /\ old_states = <<TriggerState("w1", TRUE), StringState("w2", "x")>>
    /\ EntriesAt(coalesced, "w1") = {TriggerState("w1", TRUE)}

====
